---- MODULE Spec2Model ----
(***************************************************************************)
(* Model of analysis/laser_display_parser.py: the per-tick pipeline of     *)
(* main() that turns a thresholded frame of a seven-segment display into   *)
(* a decimal reading (crop, closing, partition into six digit cells,       *)
(* sampling of seven zones per cell, table lookup, assembly).              *)
(*                                                                         *)
(* Python values are modelled as follows.                                  *)
(*   None                  the string "None"                               *)
(*   a digit symbol        the strings "0" .. "9" and "-"                  *)
(*   a binary image        [h, w, px]: its shape and the set of <<row,col>>*)
(*                         of its non-zero pixels                          *)
(*   the float n / 10000   [kind |-> "float", numer |-> n, denom |-> 10000]*)
(*   an uncaught exception exc /= "none"; the while-loop of main() is left *)
(***************************************************************************)
EXTENDS Integers, Sequences, FiniteSets, TLC

VARIABLES
    pc,             \* where main() is: "loop", "raised", "closed", or a stage of a function under test
    thres,          \* the image held by `thres` (mask, then cropped and closed strip)
    crop,           \* the slice bounds of line 186, <<r0, r1, c0, c1>> (half-open), or <<>>
    one_row_len,    \* line 197
    offsets,        \* the (start_i, end_i) pairs of lines 205-207
    digits,         \* the list `digits` of line 203
    digit,          \* the loop variable of line 212
    on_segments,    \* line 229
    num,            \* lines 246-249
    classified,     \* `laser_reading` as it is when the loop of line 212 ends
    laser_reading,  \* `laser_reading` at line 262
    exc,            \* the exception that left the loop, or "none"
    results         \* what the run has logged: one entry per completed tick

vars == <<pc, thres, crop, one_row_len, offsets, digits, digit, on_segments,
          num, classified, laser_reading, exc, results>>

(***************************************************************************)
(* Bounds of the model.                                                    *)
(***************************************************************************)
MaxDigit == 7
MaxWidth == 200
MaxCellH == 5
MaxCellW == 4
MaxActive == 2
MaxFrameH == 6
MaxFrameW == 27
MaxTicks == 3

(***************************************************************************)
(* Python values.                                                          *)
(***************************************************************************)
None == "None"

DigitChars == <<"0", "1", "2", "3", "4", "5", "6", "7", "8", "9">>

IsDigit(c) == \E n \in 1..10 : DigitChars[n] = c

DigitVal(c) == (CHOOSE n \in 1..10 : DigitChars[n] = c) - 1

NoneReading == [kind |-> None, numer |-> 0, denom |-> 1]

Float(n, d) == [kind |-> "float", numer |-> n, denom |-> d]

EmptyImage == [h |-> 0, w |-> 0, px |-> {}]

(***************************************************************************)
(* get_digits_lookup: the pattern table, in the order                      *)
(* top, top-left, top-right, center, bottom-left, bottom-right, bottom.    *)
(***************************************************************************)
WrongNineLookup ==
    { <<<<1, 1, 1, 0, 1, 1, 1>>, "0">>,
      <<<<0, 0, 1, 0, 0, 1, 0>>, "1">>,
      <<<<1, 0, 1, 1, 1, 0, 1>>, "2">>,
      <<<<1, 0, 1, 1, 0, 1, 1>>, "3">>,
      <<<<0, 1, 1, 1, 0, 1, 0>>, "4">>,
      <<<<1, 1, 0, 1, 0, 1, 1>>, "5">>,
      <<<<1, 1, 0, 1, 1, 1, 1>>, "6">>,
      <<<<1, 0, 1, 0, 0, 1, 0>>, "7">>,
      <<<<1, 1, 1, 1, 1, 1, 1>>, "8">>,
      <<<<1, 1, 1, 1, 0, 1, 0>>, "9">>,
      <<<<0, 0, 0, 1, 0, 0, 0>>, "-">> }

DIGITS_LOOKUP ==
    { <<<<1, 1, 1, 0, 1, 1, 1>>, "0">>,
      <<<<0, 0, 1, 0, 0, 1, 0>>, "1">>,
      <<<<1, 0, 1, 1, 1, 0, 1>>, "2">>,
      <<<<1, 0, 1, 1, 0, 1, 1>>, "3">>,
      <<<<0, 1, 1, 1, 0, 1, 0>>, "4">>,
      <<<<1, 1, 0, 1, 0, 1, 1>>, "5">>,
      <<<<1, 1, 0, 1, 1, 1, 1>>, "6">>,
      <<<<1, 0, 1, 0, 0, 1, 0>>, "7">>,
      <<<<1, 1, 1, 1, 1, 1, 1>>, "8">>,
      <<<<1, 1, 1, 1, 0, 1, 1>>, "9">>,
      <<<<0, 0, 0, 1, 0, 0, 0>>, "-">> }

\* Lines 246-249: `tuple(on_segments) in DIGITS_LOOKUP`, else None.
Classify(pattern) ==
    IF \E e \in DIGITS_LOOKUP : e[1] = pattern
    THEN (CHOOSE e \in DIGITS_LOOKUP : e[1] = pattern)[2]
    ELSE None

(***************************************************************************)
(* Lines 253-260: the assembly of the six classified symbols.              *)
(***************************************************************************)
\* A plausible slip: a leading "-" is dropped like a leading None.
TrimLeadingNonDigit(reading) ==
    IF ~IsDigit(reading[1]) THEN Tail(reading) ELSE reading

\* A plausible slip: every None is dropped, not only the first element.
TrimEveryNone(reading) == SelectSeq(reading, LAMBDA x : x /= None)

\* Line 254: `if laser_reading[0] == None: laser_reading.pop(0)`.
TrimLeading(reading) ==
    IF reading[1] = None THEN Tail(reading) ELSE reading

\* The value of a string of decimal digits, read left to right.
RECURSIVE DigitsValue(_)
DigitsValue(s) ==
    IF s = <<>> THEN 0
    ELSE DigitsValue(SubSeq(s, 1, Len(s) - 1)) * 10 + DigitVal(s[Len(s)])

\* int(''.join(...)) of line 258 on a string over "0".."9" and "-": an
\* optional sign, then at least one digit and nothing else; anything else
\* raises ValueError.
IntOf(s) ==
    LET neg  == s /= <<>> /\ s[1] = "-"
        body == IF neg THEN Tail(s) ELSE s
        ok   == body /= <<>> /\ \A i \in 1..Len(body) : IsDigit(body[i])
    IN  [ok |-> ok,
         value |-> IF ok THEN (IF neg THEN 0 - DigitsValue(body) ELSE DigitsValue(body))
                   ELSE 0]

\* The divisor of line 258.
SCALE == 10000

\* Lines 257-260.
Combine(reading) ==
    IF \A i \in 1..Len(reading) : reading[i] /= None
    THEN IF IntOf(reading).ok
         THEN [laser_reading |-> Float(IntOf(reading).value, SCALE), exc |-> "none"]
         ELSE [laser_reading |-> reading, exc |-> "ValueError"]
    ELSE [laser_reading |-> NoneReading, exc |-> "none"]

\* Lines 253-260 on the list the loop of line 212 built.
AssembleReading(reading) == Combine(TrimLeading(reading))

(***************************************************************************)
(* Images and NumPy slicing.                                               *)
(***************************************************************************)
Max(a, b) == IF a >= b THEN a ELSE b

Min(a, b) == IF a <= b THEN a ELSE b

\* A slice bound `i` on an axis of length `n`: a negative bound counts from
\* the end, and the result is clipped to 0..n.
SliceBound(i, n) == IF i < 0 THEN Max(i + n, 0) ELSE Min(i, n)

\* img[r0:r1, c0:c1]
SubImage(img, r0, r1, c0, c1) ==
    LET rs == SliceBound(r0, img.h)
        re == SliceBound(r1, img.h)
        cs == SliceBound(c0, img.w)
        ce == SliceBound(c1, img.w)
    IN  [h  |-> Max(re - rs, 0),
         w  |-> Max(ce - cs, 0),
         px |-> { <<p[1] - rs, p[2] - cs>> :
                    p \in { q \in img.px : /\ rs <= q[1] /\ q[1] < re
                                           /\ cs <= q[2] /\ q[2] < ce } }]

\* cv2.countNonZero
CountNonZero(img) == Cardinality(img.px)

IsEmptyImage(img) == img.h = 0 \/ img.w = 0

SetMin(S) == CHOOSE x \in S : \A y \in S : x <= y

SetMax(S) == CHOOSE x \in S : \A y \in S : x >= y

(***************************************************************************)
(* Lines 181-188: the display region.                                      *)
(***************************************************************************)
\* Line 186: the bounds min(roi[0]):max(roi[0]), min(roi[1]):max(roi[1]).
RoiBox(img) ==
    LET rows == { p[1] : p \in img.px }
        cols == { p[2] : p \in img.px }
    IN  <<SetMin(rows), SetMax(rows), SetMin(cols), SetMax(cols)>>

\* Line 186.
CropToRoi(img) ==
    LET b == RoiBox(img) IN SubImage(img, b[1], b[2], b[3], b[4])

\* Line 188: thres[thres.shape[0]//4:]
DropIndicator(img) == SubImage(img, img.h \div 4, img.h, 0, img.w)

\* Lines 182-188.
DisplayRegion(mask) ==
    IF mask.px /= {} THEN DropIndicator(CropToRoi(mask)) ELSE mask

(***************************************************************************)
(* Lines 191-192: cv2.morphologyEx(thres, cv2.MORPH_CLOSE, np.ones((2,2))) *)
(* is a dilation followed by an erosion, both over the kernel's offsets    *)
(* from its default anchor (ksize // 2 = (1, 1)); pixels outside the image *)
(* do not take part in either.                                             *)
(***************************************************************************)
KernelOffsets == { <<i - 1, j - 1>> : i \in 0..1, j \in 0..1 }

Inside(img, p) == /\ 0 <= p[1] /\ p[1] < img.h /\ 0 <= p[2] /\ p[2] < img.w

Dilate(img) ==
    [img EXCEPT !.px =
        { q \in { <<p[1] - d[1], p[2] - d[2]>> : p \in img.px, d \in KernelOffsets } :
            Inside(img, q) }]

Erode(img) ==
    [img EXCEPT !.px =
        { p \in img.px :
            \A d \in KernelOffsets :
                LET q == <<p[1] + d[1], p[2] + d[2]>>
                IN  Inside(img, q) => q \in img.px }]

MorphClose(img) == Erode(Dilate(img))

(***************************************************************************)
(* Lines 195-208: the six digit cells.                                     *)
(***************************************************************************)
digit_width_weights == <<15, 32, 35, 33, 34, 35>>

RECURSIVE SumTo(_, _)
SumTo(s, n) == IF n = 0 THEN 0 ELSE SumTo(s, n - 1) + s[n]

\* Line 199.
Space(len) == len \div 25

\* Lines 198, 200: (weights * (len / sum(weights))).astype(int).  The float
\* product is exact whenever weight * len is a multiple of the sum (then
\* len / sum is a multiple of 1/8), and is otherwise at least 1/184 away
\* from an integer, so truncating it gives the integer quotient.
DigitWidths(len) ==
    [j \in 1..Len(digit_width_weights) |->
        (digit_width_weights[j] * len)
            \div SumTo(digit_width_weights, Len(digit_width_weights))]

\* A plausible slip: the left margin added once instead of twice.
StartWithOneSpace(i, len) ==
    SumTo(DigitWidths(len), i) + (IF i /= 0 THEN Space(len) ELSE 0)

\* Lines 205-206, for i in range(6).
StartOf(i, len) ==
    SumTo(DigitWidths(len), i) + (IF i /= 0 THEN Space(len) * 2 ELSE 0)

\* A plausible slip: the right margin doubled like the left one.
EndWithTwoSpaces(i, len) == SumTo(DigitWidths(len), i + 1) + Space(len) * 2

\* Line 207.
EndOf(i, len) == SumTo(DigitWidths(len), i + 1) + Space(len)

Offsets(len) == [k \in 1..6 |-> <<StartOf(k - 1, len), EndOf(k - 1, len)>>]

\* A plausible slip: `digits` created once, before the while-loop.
KeptDigits(old) == old

\* Line 203: `digits = []`.
FreshDigits(old) == <<>>

\* Line 208, for each i: thres[:, start_i:end_i]
CellsOf(strip) ==
    [k \in 1..6 |->
        SubImage(strip, 0, strip.h,
                 Offsets(strip.w)[k][1], Offsets(strip.w)[k][2])]

(***************************************************************************)
(* Lines 214-243: the seven zones of a cell and their fill.                *)
(***************************************************************************)
\* Lines 217-226, each zone as <<start_x, start_y, end_x, end_y>>.
Segments(h, w) ==
    LET s == w \div 3
    IN  << <<s, 0, w - s, s + 1>>,
           <<0, s, s, (h \div 2) - s + 1>>,
           <<w - s - 1, s, w, (h \div 2) - s + 1>>,
           <<s, (h \div 2) - (s \div 2), w - s, (h \div 2) + (s \div 2) + 1>>,
           <<0, (h \div 2) + s, s, h - s>>,
           <<w - s - 1, (h \div 2) + s, w, h - s>>,
           <<s, h - s - 1, w - s, h>> >>

\* Line 238.
Area(z) == (z[3] - z[1]) * (z[4] - z[2])

\* Lines 234-236.
WhiteCount(cell, z) == CountNonZero(SubImage(cell, z[2], z[4], z[1], z[3]))

\* Line 242: white_count / float(area) > 0.30, for area /= 0.  A negative
\* area gives a quotient that is at most 0.
FillOn(white_count, area) == area > 0 /\ white_count * 100 > 30 * area

\* Lines 229-243 for one cell: Python raises ZeroDivisionError at the first
\* zone whose area is 0, with the zones before it already decided.
SampleCell(cell) ==
    LET zs   == Segments(cell.h, cell.w)
        bad  == { i \in 1..7 : Area(zs[i]) = 0 }
        stop == IF bad = {} THEN 8 ELSE SetMin(bad)
    IN  [on_segments |->
            [i \in 1..7 |->
                IF i < stop /\ FillOn(WhiteCount(cell, zs[i]), Area(zs[i]))
                THEN 1 ELSE 0],
         exc |-> IF bad = {} THEN "none" ELSE "ZeroDivisionError"]

(***************************************************************************)
(* Lines 210-251: the loop over the cells.  The first cell whose sampling  *)
(* raises ends the loop; `laser_reading` then holds the symbols of the     *)
(* cells before it.                                                        *)
(***************************************************************************)
ReadDigits(cells) ==
    LET samp == [k \in 1..Len(cells) |-> SampleCell(cells[k])]
        bad  == { k \in 1..Len(cells) : samp[k].exc /= "none" }
        stop == IF bad = {} THEN Len(cells) + 1 ELSE SetMin(bad)
    IN  [laser_reading |-> [k \in 1..(stop - 1) |-> Classify(samp[k].on_segments)],
         exc  |-> IF bad = {} THEN "none" ELSE samp[stop].exc,
         last |-> Min(stop, Len(cells)),
         samp |-> samp]

(***************************************************************************)
(* The state main() is in when it enters its while-loop.                   *)
(***************************************************************************)
NoFrame == thres = EmptyImage /\ crop = <<>>

NoCells == one_row_len = 0 /\ offsets = <<>> /\ digits = <<>>

NoCell == digit = EmptyImage

NoPattern == on_segments = <<>>

NoSymbol == num = None

NoReading == classified = <<>> /\ laser_reading = <<>>

NoRun == exc = "none" /\ results = <<>>

(***************************************************************************)
(* One pass of lines 165-265 on the thresholded frame `mask`.  cv2.imshow  *)
(* (line 193) and cv2.morphologyEx (line 192) reject an image with no rows *)
(* or no columns with cv2.error.                                           *)
(***************************************************************************)
Tick(mask) ==
    /\ pc = "loop"
    /\ Len(results) < MaxTicks
    /\ \E region \in {DisplayRegion(mask)} :
       \E strip \in {MorphClose(region)} :
       \E cells \in {FreshDigits(digits) \o CellsOf(strip)} :
       \E rd \in {ReadDigits(cells)} :
       \E asm \in {IF rd.exc = "none" THEN AssembleReading(rd.laser_reading)
                   ELSE [laser_reading |-> rd.laser_reading, exc |-> rd.exc]} :
         LET shown  == ~IsEmptyImage(region)
             raised == IF shown THEN asm.exc ELSE "cv2.error"
         IN  /\ crop' = IF mask.px /= {} THEN RoiBox(mask) ELSE <<>>
             /\ thres' = IF shown THEN strip ELSE region
             /\ one_row_len' = IF shown THEN strip.w ELSE one_row_len
             /\ offsets' = IF shown THEN Offsets(strip.w) ELSE offsets
             /\ digits' = IF shown THEN cells ELSE digits
             /\ digit' = IF shown THEN cells[rd.last] ELSE digit
             /\ on_segments' = IF shown THEN rd.samp[rd.last].on_segments ELSE on_segments
             /\ num' = IF shown /\ rd.laser_reading /= <<>>
                       THEN rd.laser_reading[Len(rd.laser_reading)]
                       ELSE num
             /\ classified' = IF shown THEN rd.laser_reading ELSE classified
             /\ laser_reading' = IF shown THEN asm.laser_reading ELSE laser_reading
             /\ exc' = raised
             /\ pc' = IF raised = "none" THEN "loop" ELSE "raised"
             /\ results' = IF raised = "none"
                           THEN Append(results, [mask |-> mask, reading |-> asm.laser_reading])
                           ELSE results

\* Lines 267-281: 'q' closes the results file and leaves the loop.
Quit ==
    /\ pc = "loop"
    /\ pc' = "closed"
    /\ UNCHANGED <<thres, crop, one_row_len, offsets, digits, digit, on_segments,
                   num, classified, laser_reading, exc, results>>

(***************************************************************************)
(* Blank frames of every small shape.                                      *)
(***************************************************************************)
BlankMask(h, w) == [h |-> h, w |-> w, px |-> {}]

InitLoop ==
    /\ pc = "loop"
    /\ NoFrame /\ NoCells /\ NoCell /\ NoPattern /\ NoSymbol /\ NoReading /\ NoRun

NextBlank ==
    \/ \E h \in 1..MaxFrameH, w \in 1..MaxFrameW : Tick(BlankMask(h, w))
    \/ Quit

SpecBlank == InitLoop /\ [][NextBlank]_vars

(***************************************************************************)
(* The table lookup of lines 246-249 on every pattern.                     *)
(***************************************************************************)
Patterns == [1..7 -> {0, 1}]

InitClassify ==
    /\ pc = "sampled"
    /\ on_segments \in Patterns
    /\ NoFrame /\ NoCells /\ NoCell /\ NoSymbol /\ NoReading /\ NoRun

Lookup ==
    /\ pc = "sampled"
    /\ num' = Classify(on_segments)
    /\ pc' = "classified"
    /\ UNCHANGED <<thres, crop, one_row_len, offsets, digits, digit, on_segments,
                   classified, laser_reading, exc, results>>

SpecClassify == InitClassify /\ [][Lookup]_vars

(***************************************************************************)
(* Lines 253-260 on every list of six symbols over "0"..MaxDigit, "-" and  *)
(* None.                                                                   *)
(***************************************************************************)
Symbols == { DigitChars[n] : n \in 1..Min(MaxDigit + 1, 10) } \cup {"-", None}

InitAssemble ==
    /\ pc = "read"
    /\ classified \in [1..6 -> Symbols]
    /\ laser_reading = classified
    /\ NoFrame /\ NoCells /\ NoCell /\ NoPattern /\ NoSymbol /\ NoRun

Assemble ==
    /\ pc = "read"
    /\ LET asm == AssembleReading(laser_reading)
       IN  /\ laser_reading' = asm.laser_reading
           /\ exc' = asm.exc
           /\ pc' = IF asm.exc = "none" THEN "assembled" ELSE "raised"
    /\ UNCHANGED <<thres, crop, one_row_len, offsets, digits, digit, on_segments,
                   num, classified, results>>

SpecAssemble == InitAssemble /\ [][Assemble]_vars

(***************************************************************************)
(* Lines 195-208 on a strip of every width up to MaxWidth.                 *)
(***************************************************************************)
InitPartition ==
    /\ pc = "closed_strip"
    /\ \E len \in 0..MaxWidth : thres = [h |-> 1, w |-> len, px |-> {}]
    /\ crop = <<>>
    /\ NoCells /\ NoCell /\ NoPattern /\ NoSymbol /\ NoReading /\ NoRun

Partition ==
    /\ pc = "closed_strip"
    /\ one_row_len' = thres.w
    /\ offsets' = Offsets(thres.w)
    /\ digits' = FreshDigits(digits) \o CellsOf(thres)
    /\ pc' = "divided"
    /\ UNCHANGED <<thres, crop, digit, on_segments, num, classified,
                   laser_reading, exc, results>>

SpecPartition == InitPartition /\ [][Partition]_vars

(***************************************************************************)
(* Lines 214-249 on one cell: every shape up to MaxCellH x MaxCellW with   *)
(* at most MaxActive lit pixels or all pixels lit, and the eleven glyphs   *)
(* drawn in a cell of 11 rows and 3 columns.                               *)
(***************************************************************************)
RECURSIVE SmallSubsets(_, _)
SmallSubsets(S, k) ==
    IF k = 0 THEN {{}}
    ELSE LET prev == SmallSubsets(S, k - 1)
         IN  prev \cup { t \cup {x} : t \in prev, x \in S }

PixelsOf(h, w) == { <<r, c>> : r \in 0..(h - 1), c \in 0..(w - 1) }

\* The pixels that light each of the seven zones of an 11 x 3 cell, chosen
\* so that no lit pixel of one zone switches on another.
GlyphStrokes ==
    << {<<1, 1>>},
       {<<2, 0>>, <<3, 0>>, <<4, 0>>},
       {<<2, 2>>, <<3, 2>>, <<4, 2>>},
       {<<5, 1>>},
       {<<7, 0>>, <<8, 0>>, <<9, 0>>},
       {<<7, 2>>, <<8, 2>>, <<9, 2>>},
       {<<10, 1>>} >>

GlyphPixels(pattern) ==
    UNION { IF pattern[i] = 1 THEN GlyphStrokes[i] ELSE {} : i \in 1..7 }

PatternOf(symbol) ==
    IF symbol = None THEN <<0, 0, 0, 0, 0, 0, 0>>
    ELSE (CHOOSE e \in DIGITS_LOOKUP : e[2] = symbol)[1]

GlyphCell(symbol) == [h |-> 11, w |-> 3, px |-> GlyphPixels(PatternOf(symbol))]

CellsOfShape(h, w) ==
    { [h |-> h, w |-> w, px |-> px] :
        px \in SmallSubsets(PixelsOf(h, w), MaxActive) \cup {PixelsOf(h, w)} }

TestCells ==
    UNION { CellsOfShape(h, w) : h \in 0..MaxCellH, w \in 0..MaxCellW }
        \cup { GlyphCell(e[2]) : e \in DIGITS_LOOKUP }

InitSample ==
    /\ pc = "cell"
    /\ digit \in TestCells
    /\ NoFrame /\ NoCells /\ NoPattern /\ NoSymbol /\ NoReading /\ NoRun

\* Lines 214-249 for the cell in `digit`.
SampleDigit ==
    /\ pc = "cell"
    /\ LET sc == SampleCell(digit)
       IN  /\ on_segments' = sc.on_segments
           /\ exc' = sc.exc
           /\ num' = IF sc.exc = "none" THEN Classify(sc.on_segments) ELSE num
           /\ pc' = IF sc.exc = "none" THEN "classified" ELSE "raised"
    /\ UNCHANGED <<thres, crop, one_row_len, offsets, digits, digit, classified,
                   laser_reading, results>>

SpecSample == InitSample /\ [][SampleDigit]_vars

(***************************************************************************)
(* Frames for whole ticks.  A display frame has 15 rows and 26 columns:    *)
(* an indicator pixel in its first row and column, a pixel in its last     *)
(* row and column, and between them six glyphs, drawn one row and one      *)
(* column before the place where the closing of line 192 puts them.  The   *)
(* crop of line 186 and the cut of line 188 leave a strip of 11 rows and   *)
(* 25 columns, which line 208 divides into six cells of 3 columns.         *)
(***************************************************************************)
DisplayFrame(symbols) ==
    [h |-> 15, w |-> 26,
     px |-> {<<0, 0>>, <<14, 25>>} \cup
            { q \in UNION { { <<p[1] + 2, Offsets(25)[k][1] + p[2] - 1>> :
                                p \in GlyphPixels(PatternOf(symbols[k])) } : k \in 1..6 } :
                q[2] >= 0 }]

\* The readings shown to the camera: what the first cell can hold is what
\* can be drawn without its left column.
ShownSymbols ==
    { <<None, "0", "1", "2", "3", "4">>,
      <<"-", "0", "5", "1", "2", "3">>,
      <<"1", "5", "6", "7", "8", "9">>,
      <<None, "9", "9", "9", "9", "9">>,
      <<None, None, None, None, None, None>>,
      <<None, "1", None, "2", "3", "4">>,
      <<"-", "0", "0", "0", "0", "0">>,
      <<"7", "0", "0", "0", "0", "1">>,
      <<None, "0", "0", "0", "0", "0">>,
      <<None, "-", "1", "2", "3", "4">> }

\* Frames in which something is lit but no display can be read.
OddFrames ==
    { BlankMask(15, 26),
      [h |-> 15, w |-> 26, px |-> {<<7, 13>>}],
      [h |-> 15, w |-> 26, px |-> {<<0, 0>>, <<14, 25>>}],
      [h |-> 15, w |-> 26, px |-> {<<3, 2>>, <<9, 20>>}],
      DisplayFrame(<<None, "1", "-", "2", "3", "4">>) }

Frames == { DisplayFrame(s) : s \in ShownSymbols } \cup OddFrames

Next ==
    \/ \E mask \in Frames : Tick(mask)
    \/ Quit

Spec == InitLoop /\ [][Next]_vars

(***************************************************************************)
(* Properties of the table lookup (SpecClassify).                          *)
(***************************************************************************)
\* The table of the design document, section 4.1.
DocumentedTable ==
    << <<1, 1, 1, 0, 1, 1, 1>>, <<0, 0, 1, 0, 0, 1, 0>>, <<1, 0, 1, 1, 1, 0, 1>>,
       <<1, 0, 1, 1, 0, 1, 1>>, <<0, 1, 1, 1, 0, 1, 0>>, <<1, 1, 0, 1, 0, 1, 1>>,
       <<1, 1, 0, 1, 1, 1, 1>>, <<1, 0, 1, 0, 0, 1, 0>>, <<1, 1, 1, 1, 1, 1, 1>>,
       <<1, 1, 1, 1, 0, 1, 1>>, <<0, 0, 0, 1, 0, 0, 0>> >>

DocumentedSymbol(k) == IF k = 11 THEN "-" ELSE DigitChars[k]

\* C1: each of the 128 patterns is classified as the documented table says:
\* the 11 listed patterns, pairwise distinct, give their symbols, and each
\* of the other 117 gives None.
C1_ClassifierIsTheTable ==
    /\ Cardinality({ e[1] : e \in DIGITS_LOOKUP }) = 11
    /\ Cardinality({ DocumentedTable[k] : k \in 1..11 }) = 11
    /\ pc = "classified" =>
        IF \E k \in 1..11 : DocumentedTable[k] = on_segments
        THEN \A k \in 1..11 :
                DocumentedTable[k] = on_segments => num = DocumentedSymbol(k)
        ELSE num = None

\* A pattern one segment away from "9" has been looked up and rejected.
C1_NearMatchRejected ==
    /\ pc = "classified"
    /\ on_segments = <<1, 1, 1, 1, 0, 1, 0>>
    /\ num = None

(***************************************************************************)
(* Properties of the assembly (SpecAssemble).                              *)
(***************************************************************************)
Assembled == pc \in {"assembled", "raised"}

\* The number a list of six symbols spells, cell by cell.
PlaceValue(c) == IF IsDigit(c) THEN DigitVal(c) ELSE 0

LowFive(cs) ==
    PlaceValue(cs[2]) * 10000 + PlaceValue(cs[3]) * 1000 + PlaceValue(cs[4]) * 100
        + PlaceValue(cs[5]) * 10 + PlaceValue(cs[6])

Spelled(cs) ==
    IF cs[1] = "-" THEN 0 - LowFive(cs)
    ELSE PlaceValue(cs[1]) * 100000 + LowFive(cs)

\* C2: when cells 2..6 are digits and cell 1 is a digit, "-" or None, the
\* reading is the integer the kept symbols spell (None left out, a leading
\* "-" negating it) over 10000.
C2_ReadingIsSpelledOverScale ==
    ( /\ Assembled
      /\ \A i \in 2..6 : IsDigit(classified[i])
      /\ IsDigit(classified[1]) \/ classified[1] \in {"-", None} )
    => /\ exc = "none"
       /\ laser_reading = [kind |-> "float", numer |-> Spelled(classified), denom |-> 10000]

\* "-", "0", "5", "1", "2", "3" has been read as -5123 / 10000.
C2_MinusZeroFiveOneTwoThree ==
    /\ pc = "assembled"
    /\ classified = <<"-", "0", "5", "1", "2", "3">>
    /\ laser_reading = [kind |-> "float", numer |-> 0 - 5123, denom |-> 10000]

\* C3: a None in any of cells 2..6 makes the reading None, whatever the
\* other cells hold.
C3_InnerNoneIsUnreadable ==
    (Assembled /\ \E i \in 2..6 : classified[i] = None)
    => /\ exc = "none"
       /\ laser_reading = NoneReading

\* A list whose first and third cells are None has been assembled to None.
C3_FirstAndInnerNone ==
    /\ pc = "assembled"
    /\ classified = <<None, "1", None, "2", "3", "4">>
    /\ laser_reading = NoneReading

\* C4: a "-" anywhere but first in the trimmed list makes the reading None,
\* and no exception leaves the loop.
C4_InnerMinusIsUnreadable ==
    ( /\ Assembled
      /\ \E i \in 2..Len(TrimLeading(classified)) : TrimLeading(classified)[i] = "-" )
    => /\ exc = "none"
       /\ laser_reading = NoneReading

(***************************************************************************)
(* Properties of the partition (SpecPartition).                            *)
(***************************************************************************)
\* C9 as stated: every cell's offsets lie within the strip,
\* 0 <= start_i <= end_i <= total_width.
C9_OffsetsWithinStrip ==
    pc = "divided" =>
        \A k \in 1..6 :
            /\ 0 <= offsets[k][1]
            /\ offsets[k][1] <= offsets[k][2]
            /\ offsets[k][2] <= one_row_len

\* C9 amended: 0 <= start_i <= end_i and start_i <= total_width; end_i may
\* pass total_width by at most total_width // 25, and the slice then stops
\* at the strip's edge, so the cell is the columns start_i up to
\* min(end_i, total_width) of the strip, at its full height.
C9_CellsClippedToStrip ==
    pc = "divided" =>
        \A k \in 1..6 :
            /\ 0 <= offsets[k][1]
            /\ offsets[k][1] <= offsets[k][2]
            /\ offsets[k][1] <= one_row_len
            /\ offsets[k][2] <= one_row_len + (one_row_len \div 25)
            /\ digits[k].w = (IF offsets[k][2] <= one_row_len THEN offsets[k][2]
                              ELSE one_row_len) - offsets[k][1]
            /\ digits[k].h = thres.h

\* A strip of width 184 has been divided, and its last cell's end offset
\* (191) lies beyond the strip.
C9_LastCellPastEdge ==
    /\ pc = "divided"
    /\ one_row_len = 184
    /\ offsets[6][2] = 191
    /\ digits[6].w = 184 - offsets[6][1]

\* C10: the cells come left to right, and each of cells 1..5 starts exactly
\* total_width // 25 columns after the end of the cell before it.
C10_GapIsOneSpace ==
    pc = "divided" =>
        \A k \in 2..6 :
            /\ offsets[k][1] - offsets[k - 1][2] = one_row_len \div 25
            /\ offsets[k - 1][1] <= offsets[k][1]
            /\ offsets[k - 1][2] <= offsets[k][1]

\* A strip of width 184 has been divided with a gap of 7 columns after its
\* first cell.
C10_GapOfSeven ==
    /\ pc = "divided"
    /\ one_row_len = 184
    /\ offsets[1] = <<0, 22>>
    /\ offsets[2][1] = 29

(***************************************************************************)
(* Properties of the sampling of one cell (SpecSample).                    *)
(***************************************************************************)
\* C6: sampling a cell of any shape ends without an exception, in seven
\* on/off values, a zone of zero or negative area being off.
C6_SamplingNeverDivides ==
    pc /= "cell" =>
        /\ exc = "none"
        /\ Len(on_segments) = 7
        /\ \A i \in 1..7 :
            Area(Segments(digit.h, digit.w)[i]) <= 0 => on_segments[i] = 0

(***************************************************************************)
(* Properties of whole ticks (Spec, SpecBlank).                            *)
(***************************************************************************)
\* C5: a tick on a frame with no lit pixel, whatever the frame's shape,
\* ends without an exception and reads None.
C5_BlankFrameReadsNone ==
    /\ exc = "none"
    /\ \A i \in 1..Len(results) :
        results[i].mask.px = {} => results[i].reading = NoneReading

\* C7: two ticks of a run that were given the same frame logged the same
\* reading, whatever was read before or between them, and after a tick the
\* lists of cells and of symbols hold that tick's six entries only.
C7_SameFrameSameReading ==
    /\ \A i, j \in 1..Len(results) :
        results[i].mask = results[j].mask => results[i].reading = results[j].reading
    /\ (pc = "loop" /\ results /= <<>>) => Len(digits) = 6 /\ Len(classified) = 6

\* A frame has been read as a number, then another frame as None, then the
\* first frame again.
C7_SameFrameAfterUnreadable ==
    /\ Len(results) >= 3
    /\ results[1].mask = results[3].mask
    /\ results[1].mask /= results[2].mask
    /\ results[1].reading.kind = "float"
    /\ results[2].reading = NoneReading

\* C8: the crop of a frame with lit pixels holds every lit pixel of it.
C8_CropHoldsEveryLitPixel ==
    (pc = "loop" /\ results /= <<>> /\ crop /= <<>>) =>
        \A p \in results[Len(results)].mask.px :
            /\ crop[1] <= p[1] /\ p[1] < crop[2]
            /\ crop[3] <= p[2] /\ p[2] < crop[4]

====
